---- MODULE Spec2Model ----
(***************************************************************************)
(* The transaction ledger and budget engine (finance_assistant.py) and the *)
(* query responder (ai_helper.py) of the AI-Powered Finance Assistant.     *)
(*                                                                         *)
(* Amounts are exact integers (currency units); Python floats are not      *)
(* modelled bit for bit.  Strings are TLA+ strings, read character by      *)
(* character with SubSeq.  A Python dict is an insertion-ordered sequence  *)
(* of <<key, value>> pairs; a transaction dict is a record.                *)
(***************************************************************************)
EXTENDS Integers, Sequences, FiniteSets, TLC

VARIABLES
    transactions,   \* FinanceAssistant.transactions: list of transaction dicts
    budgets,        \* FinanceAssistant.budgets: dict category -> amount
    data_file,      \* data/transactions.json: <<>> when missing, else <<document>>
    budget_file,    \* data/budgets.json: <<>> when missing, else <<document>>
    last,           \* the last call on the ledger store and what it returned
    chat,           \* FinanceAI.chat_response: the call in progress or just ended
    peer            \* transactions of a second FinanceAssistant on the same files

vars == <<transactions, budgets, data_file, budget_file, last, chat, peer>>

----------------------------------------------------------------------------
(* Bounds and input domains *)

MaxTx == 3

TxInputs ==
    { [amount |-> -50,  category |-> "Food",   description |-> "Grocery",    date |-> "2024-03-02"],
      [amount |-> -30,  category |-> "Food",   description |-> "Restaurant", date |-> "2024-04-01"],
      [amount |-> 20,   category |-> "Food",   description |-> "Refund",     date |-> "2024-03-10"],
      [amount |-> -200, category |-> "Bills",  description |-> "Rent",       date |-> "2024-03-05"],
      [amount |-> 0,    category |-> "Other",  description |-> "",           date |-> "2024-03-02"] }

BudgetCategories == {"Food", "Bills"}
\* get_spending_trends(days): 30 is the default, the only value app.py uses
TrendDays == {0, 7, 30}
BudgetAmounts == {-10, 0, 100}
QueryCategories == {"Food", "Bills", "Other"}

\* datetime.now(): the wall clock is an input of every call that reads it
Nows == { [year |-> 2024, month |-> 3, day |-> 1],
          [year |-> 2024, month |-> 4, day |-> 2] }

----------------------------------------------------------------------------
(* Python dicts as insertion-ordered sequences of <<key, value>> pairs *)

DictKeys(d) == { d[i][1] : i \in 1..Len(d) }
DictHas(d, k) == \E i \in 1..Len(d) : d[i][1] = k
DictGet(d, k) == d[CHOOSE i \in 1..Len(d) : d[i][1] = k][2]
\* d[k] = v: overwrite in place, or insert last
DictSet(d, k, v) ==
    IF DictHas(d, k)
    THEN [i \in 1..Len(d) |-> IF d[i][1] = k THEN <<k, v>> ELSE d[i]]
    ELSE Append(d, <<k, v>>)

----------------------------------------------------------------------------
(* strftime *)

Digit(n) == SubSeq("0123456789", n + 1, n + 1)
Pad2(n) == Digit((n \div 10) % 10) \o Digit(n % 10)
Pad4(n) == Pad2(n \div 100) \o Pad2(n % 100)
\* now.strftime("%Y-%m")
StrftimeYm(now) == Pad4(now.year) \o "-" \o Pad2(now.month)
\* str.startswith
StartsWith(s, prefix) ==
    /\ Len(s) >= Len(prefix)
    /\ SubSeq(s, 1, Len(prefix)) = prefix

----------------------------------------------------------------------------
(* JSON documents: json.dump and json.load *)

JNum(v) == [t |-> "number", v |-> v]
JStr(s) == [t |-> "string", v |-> s]
JArr(items) == [t |-> "array", v |-> items]
JObj(members) == [t |-> "object", v |-> members]

\* json.dump of one transaction dict: keys in the dict's insertion order
DumpTransaction(tx) ==
    JObj(<< <<"amount", JNum(tx.amount)>>,
            <<"category", JStr(tx.category)>>,
            <<"description", JStr(tx.description)>>,
            <<"date", JStr(tx.date)>> >>)
\* json.dump(self.transactions, f)
DumpTransactions(ts) == JArr([i \in 1..Len(ts) |-> DumpTransaction(ts[i])])
\* json.dump(self.budgets, f)
DumpBudgets(b) == JObj([i \in 1..Len(b) |-> <<b[i][1], JNum(b[i][2])>>])

\* json.load of a JSON object whose values are scalars, as a record:
\* a repeated key keeps its last value
LoadRecord(j) ==
    [k \in { j.v[i][1] : i \in 1..Len(j.v) } |->
        LET last_i == CHOOSE i \in 1..Len(j.v) :
                         /\ j.v[i][1] = k
                         /\ \A n \in 1..Len(j.v) : j.v[n][1] = k => n <= i
        IN  j.v[last_i][2].v]
\* json.load of the transactions document: a list of dicts
LoadTransactionsDoc(j) == [i \in 1..Len(j.v) |-> LoadRecord(j.v[i])]
\* json.load of the budgets document: a dict in document order
RECURSIVE LoadDictMembers(_, _)
LoadDictMembers(members, acc) ==
    IF members = <<>> THEN acc
    ELSE LoadDictMembers(Tail(members),
                         DictSet(acc, Head(members)[1], Head(members)[2].v))
LoadBudgetsDoc(j) == LoadDictMembers(j.v, <<>>)

----------------------------------------------------------------------------
(* FinanceAssistant: persistence *)

\* load_transactions: [] when the file is missing
load_transactions(file) ==
    IF file # <<>> THEN LoadTransactionsDoc(file[1]) ELSE <<>>
\* load_budgets: {} when the file is missing
load_budgets(file) ==
    IF file # <<>> THEN LoadBudgetsDoc(file[1]) ELSE <<>>
\* (mutation of save_transactions: the file written before the append)
save_transactions_stale(ts) == << DumpTransactions(SubSeq(ts, 1, Len(ts) - 1)) >>
\* save_transactions: the whole list rewritten
save_transactions(ts) == << DumpTransactions(ts) >>
\* save_budgets: the whole map rewritten
save_budgets(b) == << DumpBudgets(b) >>

----------------------------------------------------------------------------
(* FinanceAssistant: queries, as the code computes them *)

Abs(x) == IF x < 0 THEN -x ELSE x

\* sum(t['amount'] for t in self.transactions if t['amount'] > 0)
RECURSIVE TotalIncome(_)
TotalIncome(ts) ==
    IF ts = <<>> THEN 0
    ELSE (IF Head(ts).amount > 0 THEN Head(ts).amount ELSE 0) + TotalIncome(Tail(ts))

\* (mutation of TotalExpenses: expenses summed as absolute values)
RECURSIVE TotalExpensesAbs(_)
TotalExpensesAbs(ts) ==
    IF ts = <<>> THEN 0
    ELSE (IF Head(ts).amount < 0 THEN Abs(Head(ts).amount) ELSE 0)
         + TotalExpensesAbs(Tail(ts))

\* sum(t['amount'] for t in self.transactions if t['amount'] < 0)
RECURSIVE TotalExpenses(_)
TotalExpenses(ts) ==
    IF ts = <<>> THEN 0
    ELSE (IF Head(ts).amount < 0 THEN Head(ts).amount ELSE 0) + TotalExpenses(Tail(ts))

\* (mutation of MonthlyExpensesByCategory: the amount < 0 test left out)
RECURSIVE MonthlyByCategoryAnySign(_, _, _)
MonthlyByCategoryAnySign(ts, category, current_month) ==
    IF ts = <<>> THEN 0
    ELSE (IF /\ Head(ts).category = category
             /\ StartsWith(Head(ts).date, current_month)
          THEN Abs(Head(ts).amount) ELSE 0)
         + MonthlyByCategoryAnySign(Tail(ts), category, current_month)

\* get_monthly_expenses_by_category, given the month the clock shows
RECURSIVE MonthlyExpensesByCategory(_, _, _)
MonthlyExpensesByCategory(ts, category, current_month) ==
    IF ts = <<>> THEN 0
    ELSE (IF /\ Head(ts).category = category
             /\ Head(ts).amount < 0
             /\ StartsWith(Head(ts).date, current_month)
          THEN Abs(Head(ts).amount) ELSE 0)
         + MonthlyExpensesByCategory(Tail(ts), category, current_month)

\* A float quotient, kept exact: a fraction in lowest terms
RECURSIVE GCD(_, _)
GCD(a, b) == IF b = 0 THEN a ELSE GCD(b, a % b)
Frac(n, d) ==
    LET g == GCD(Abs(n), Abs(d))
    IN  [num |-> n \div g, den |-> d \div g]
Zero == [num |-> 0, den |-> 1]

\* (mutation of StatusEntry: the ratio not scaled to a percentage)
StatusEntryRatio(budget, spent) ==
    [budget |-> budget,
     spent |-> spent,
     remaining |-> budget - spent,
     percentage |-> IF budget > 0 THEN Frac(spent, budget) ELSE Zero]

\* the dict literal of get_budget_status for one category
StatusEntry(budget, spent) ==
    [budget |-> budget,
     spent |-> spent,
     remaining |-> budget - spent,
     percentage |-> IF budget > 0 THEN Frac(spent * 100, budget) ELSE Zero]

\* get_budget_status, given the month the clock shows:
\* for category, budget in self.budgets.items(): status[category] = {...}
RECURSIVE BudgetStatusLoop(_, _, _, _)
BudgetStatusLoop(items, ts, current_month, status) ==
    IF items = <<>> THEN status
    ELSE LET category == Head(items)[1]
             budget == Head(items)[2]
             spent == MonthlyExpensesByCategory(ts, category, current_month)
         IN  BudgetStatusLoop(Tail(items), ts, current_month,
                              DictSet(status, category, StatusEntry(budget, spent)))
\* (mutation of BudgetStatus: categories with nothing spent are skipped)
RECURSIVE BudgetStatusSpentOnly(_, _, _)
BudgetStatusSpentOnly(ts, b, current_month) ==
    IF b = <<>> THEN <<>>
    ELSE LET spent == MonthlyExpensesByCategory(ts, Head(b)[1], current_month)
             rest == BudgetStatusSpentOnly(ts, Tail(b), current_month)
         IN  IF spent = 0 THEN rest
             ELSE << <<Head(b)[1], StatusEntry(Head(b)[2], spent)>> >> \o rest
BudgetStatus(ts, b, current_month) == BudgetStatusLoop(b, ts, current_month, <<>>)

----------------------------------------------------------------------------
(* Strings: str.lower, substring tests, the date pattern *)

UpperLetters == "ABCDEFGHIJKLMNOPQRSTUVWXYZ"
LowerLetters == "abcdefghijklmnopqrstuvwxyz"
Char(s, i) == SubSeq(s, i, i)
LowerOf == [c \in { Char(UpperLetters, i) : i \in 1..Len(UpperLetters) } |->
               Char(LowerLetters,
                    CHOOSE i \in 1..Len(UpperLetters) : Char(UpperLetters, i) = c)]
LowerChar(c) == IF c \in DOMAIN LowerOf THEN LowerOf[c] ELSE c
\* str.lower()
RECURSIVE Lower(_)
Lower(s) ==
    IF Len(s) = 0 THEN ""
    ELSE LowerChar(Char(s, 1)) \o Lower(SubSeq(s, 2, Len(s)))
\* word in query
Contains(q, w) ==
    \E i \in 1..(Len(q) - Len(w) + 1) : SubSeq(q, i, i + Len(w) - 1) = w

IsDigit(c) == \E n \in 0..9 : Digit(n) = c
DigitVal(c) == CHOOSE n \in 0..9 : Digit(n) = c
\* \d{4}-\d{2}-\d{2} matches at position i
DateAt(q, i) ==
    /\ i + 9 <= Len(q)
    /\ \A k \in {0, 1, 2, 3, 5, 6, 8, 9} : IsDigit(Char(q, i + k))
    /\ Char(q, i + 4) = "-"
    /\ Char(q, i + 7) = "-"
\* re.search(r'(\d{4}-\d{2}-\d{2})', query): the leftmost match, <<>> for None
DateSearch(q) ==
    IF \E i \in 1..Len(q) : DateAt(q, i)
    THEN LET first == CHOOSE i \in 1..Len(q) :
                         DateAt(q, i) /\ \A n \in 1..(i - 1) : ~DateAt(q, n)
         IN  << SubSeq(q, first, first + 9) >>
    ELSE <<>>

\* code-point order of the characters the model uses
Alphabet == " ,-0123456789ABCDEFGHIJKLMNOPQRSTUVWXYZabcdefghijklmnopqrstuvwxyz"
Ord(c) == CHOOSE i \in 1..Len(Alphabet) : Char(Alphabet, i) = c
RECURSIVE StrLess(_, _)
StrLess(a, b) ==
    IF Len(b) = 0 THEN FALSE
    ELSE IF Len(a) = 0 THEN TRUE
    ELSE IF Char(a, 1) = Char(b, 1)
         THEN StrLess(SubSeq(a, 2, Len(a)), SubSeq(b, 2, Len(b)))
         ELSE Ord(Char(a, 1)) < Ord(Char(b, 1))

----------------------------------------------------------------------------
(* Dates: pd.to_datetime, strftime, timedelta *)

Num2(s) == DigitVal(Char(s, 1)) * 10 + DigitVal(Char(s, 2))
\* pd.to_datetime of an ISO YYYY-MM-DD string
ToDatetime(s) ==
    [year |-> Num2(SubSeq(s, 1, 2)) * 100 + Num2(SubSeq(s, 3, 4)),
     month |-> Num2(SubSeq(s, 6, 7)),
     day |-> Num2(SubSeq(s, 9, 10))]
\* strftime('%Y-%m-%d')
StrftimeYmd(d) == Pad4(d.year) \o "-" \o Pad2(d.month) \o "-" \o Pad2(d.day)
IsLeap(y) == (y % 4 = 0 /\ y % 100 # 0) \/ y % 400 = 0
DaysInMonth(y, m) ==
    IF m = 2 THEN (IF IsLeap(y) THEN 29 ELSE 28)
    ELSE IF m \in {4, 6, 9, 11} THEN 30 ELSE 31
\* d - timedelta(days=1)
MinusOneDay(d) ==
    IF d.day > 1 THEN [d EXCEPT !.day = d.day - 1]
    ELSE IF d.month > 1
         THEN [year |-> d.year, month |-> d.month - 1,
               day |-> DaysInMonth(d.year, d.month - 1)]
         ELSE [year |-> d.year - 1, month |-> 12, day |-> 31]
DateLess(a, b) ==
    \/ a.year < b.year
    \/ a.year = b.year /\ a.month < b.month
    \/ a.year = b.year /\ a.month = b.month /\ a.day < b.day

----------------------------------------------------------------------------
(* FinanceAI: the data frame of chat_response and its aggregates *)

\* df = pd.DataFrame(transactions); df['date'] = pd.to_datetime(df['date'])
DataFrame(ts) ==
    [i \in 1..Len(ts) |-> [ts[i] EXCEPT !.date = ToDatetime(ts[i].date)]]

IsExpense(row) == row.amount < 0
IsIncome(row) == row.amount > 0
RECURSIVE SumColumn(_)
SumColumn(rows) ==
    IF rows = <<>> THEN 0 ELSE Head(rows).amount + SumColumn(Tail(rows))
\* abs(df[df['amount'] < 0]['amount'].sum())
TotalSpent(df) == Abs(SumColumn(SelectSeq(df, IsExpense)))

\* the keys of a groupby, sorted
RECURSIVE SortedKeys(_)
SortedKeys(S) ==
    IF S = {} THEN <<>>
    ELSE LET least == CHOOSE k \in S : \A o \in S \ {k} : StrLess(k, o)
         IN  <<least>> \o SortedKeys(S \ {least})
\* df[df['amount'] < 0].groupby('category')['amount'].sum().abs()
CategorySpending(df) ==
    LET expenses == SelectSeq(df, IsExpense)
        keys == SortedKeys({ expenses[i].category : i \in 1..Len(expenses) })
    IN  [n \in 1..Len(keys) |->
            <<keys[n],
              Abs(SumColumn(SelectSeq(expenses, LAMBDA r : r.category = keys[n])))>>]

\* sort_values('date', ascending=False): insertion of each row into the sorted rows
RECURSIVE InsertByDateDesc(_, _)
InsertByDateDesc(sorted, row) ==
    IF sorted = <<>> THEN <<row>>
    ELSE IF DateLess(Head(sorted).date, row.date)
         THEN <<row>> \o sorted
         ELSE <<Head(sorted)>> \o InsertByDateDesc(Tail(sorted), row)
RECURSIVE SortByDateDesc(_)
SortByDateDesc(rows) ==
    IF rows = <<>> THEN <<>>
    ELSE InsertByDateDesc(SortByDateDesc(SubSeq(rows, 1, Len(rows) - 1)),
                          rows[Len(rows)])
\* .head(n)
HeadRows(rows, n) == SubSeq(rows, 1, IF Len(rows) < n THEN Len(rows) ELSE n)

----------------------------------------------------------------------------
(* FinanceAI: the fallback handlers; a message is a record of its kind and *)
(* the values formatted into it, a raised exception is [kind |-> "raised"] *)

\* _get_highest_spending: idxmax of an empty series raises ValueError
GetHighestSpending(df) ==
    LET category_spending == CategorySpending(df)
    IN  IF category_spending = <<>>
        THEN [kind |-> "raised", exception |-> "ValueError"]
        ELSE LET highest ==
                   CHOOSE i \in 1..Len(category_spending) :
                      /\ \A n \in 1..Len(category_spending) :
                            category_spending[n][2] <= category_spending[i][2]
                      /\ \A n \in 1..(i - 1) :
                            category_spending[n][2] < category_spending[i][2]
             IN  [kind |-> "highest_spending",
                  category |-> category_spending[highest][1],
                  amount |-> category_spending[highest][2]]

\* _get_summary
GetSummary(df) ==
    [kind |-> "summary",
     total_income |-> SumColumn(SelectSeq(df, IsIncome)),
     total_spent |-> TotalSpent(df),
     category_spending |-> CategorySpending(df)]

\* _get_category_analysis
GetCategoryAnalysis(category, df) ==
    LET category_data == SelectSeq(df, LAMBDA r : Lower(r.category) = category)
    IN  IF Len(category_data) = 0
        THEN [kind |-> "no_transactions", for |-> category]
        ELSE [kind |-> "category_analysis",
              category |-> category,
              total_spent |-> TotalSpent(category_data),
              recent |-> SelectSeq(HeadRows(SortByDateDesc(category_data), 3),
                                   IsExpense)]

\* _get_date_spending
GetDateSpending(query, df, now) ==
    LET date == IF Contains(query, "today") THEN StrftimeYmd(now)
                ELSE IF Contains(query, "yesterday") THEN StrftimeYmd(MinusOneDay(now))
                ELSE DateSearch(query)[1]
        day_transactions == SelectSeq(df, LAMBDA r : StrftimeYmd(r.date) = date)
    IN  IF Len(day_transactions) = 0
        THEN [kind |-> "no_transactions", for |-> date]
        ELSE [kind |-> "date_spending",
              date |-> date,
              total_spent |-> TotalSpent(day_transactions),
              breakdown |-> SelectSeq(day_transactions, IsExpense)]

\* _get_monthly_spending
GetMonthlySpending(query, df, now) ==
    LET current_month == StrftimeYm(now)
        target_month == IF Contains(query, "last month")
                        THEN StrftimeYm(MinusOneDay([now EXCEPT !.day = 1]))
                        ELSE current_month
        month_data == SelectSeq(df, LAMBDA r : StrftimeYm(r.date) = target_month)
    IN  IF Len(month_data) = 0
        THEN [kind |-> "no_transactions", for |-> target_month]
        ELSE [kind |-> "monthly_analysis",
              month |-> target_month,
              total_spent |-> TotalSpent(month_data),
              category_spending |-> CategorySpending(month_data)]

HelpMessage == [kind |-> "help"]

----------------------------------------------------------------------------
(* FinanceAI.chat_response: the tests on the query *)

GreetingWords == <<"hi", "hello", "hey">>
CategoryNames == <<"food", "transport", "entertainment", "bills", "other">>
MonthWords == <<"month", "january", "february", "march", "april", "may", "june",
                "july", "august", "september", "october", "november", "december">>
\* any(word in query for word in words)
AnyIn(words, q) == \E i \in 1..Len(words) : Contains(q, words[i])
\* next(cat for cat in words if cat in query)
FirstIn(words, q) ==
    words[CHOOSE i \in 1..Len(words) :
             Contains(q, words[i]) /\ \A n \in 1..(i - 1) : ~Contains(q, words[n])]

\* (mutation of IsGreeting: the greeting must be the whole query)
IsGreetingWholeQuery(q) == \E i \in 1..Len(GreetingWords) : q = GreetingWords[i]
\* any(word in query for word in ['hi', 'hello', 'hey'])
IsGreeting(q) == AnyIn(GreetingWords, q)

MatchesSpentMost(q) == Contains(q, "spent most")
MatchesSummary(q) == Contains(q, "summary")
MatchesCategory(q) == AnyIn(CategoryNames, q)
MatchesDate(q) ==
    DateSearch(q) # <<>> \/ Contains(q, "today") \/ Contains(q, "yesterday")
MatchesMonth(q) == AnyIn(MonthWords, q)

\* (mutation of FallbackRule: the date test moved before the category test)
FallbackRuleDateFirst(q) ==
    IF MatchesSpentMost(q) THEN "a"
    ELSE IF MatchesSummary(q) THEN "b"
    ELSE IF MatchesDate(q) THEN "d"
    ELSE IF MatchesCategory(q) THEN "c"
    ELSE IF MatchesMonth(q) THEN "e"
    ELSE "f"
\* the except branch of chat_response: which return statement is reached
FallbackRule(q) ==
    IF MatchesSpentMost(q) THEN "a"
    ELSE IF MatchesSummary(q) THEN "b"
    ELSE IF MatchesCategory(q) THEN "c"
    ELSE IF MatchesDate(q) THEN "d"
    ELSE IF MatchesMonth(q) THEN "e"
    ELSE "f"
\* the except branch of chat_response: what that return statement evaluates to
Fallback(q, df, now) ==
    LET rule == FallbackRule(q)
    IN  CASE rule = "a" -> GetHighestSpending(df)
          [] rule = "b" -> GetSummary(df)
          [] rule = "c" -> GetCategoryAnalysis(FirstIn(CategoryNames, q), df)
          [] rule = "d" -> GetDateSpending(q, df, now)
          [] rule = "e" -> GetMonthlySpending(q, df, now)
          [] OTHER -> HelpMessage

NoDataMessage == [kind |-> "no_transaction_data"]
Greeting(total_spent) == [kind |-> "greeting", total_spent |-> total_spent]

ChatIdle == [pc |-> "idle"]

\* (mutation of ChatEntry: the greeting test made before the empty-ledger test)
ChatEntryGreetingFirst(query, ts) ==
    LET q == Lower(query)
    IN  IF IsGreeting(q)
        THEN [pc |-> "done", query |-> q, path |-> <<"greeting_test">>,
              ret |-> Greeting(TotalSpent(DataFrame(ts)))]
        ELSE IF ts = <<>>
        THEN [pc |-> "done", query |-> query, path |-> <<"greeting_test", "empty_test">>,
              ret |-> NoDataMessage]
        ELSE [pc |-> "calling", query |-> q,
              path |-> <<"greeting_test", "empty_test", "external_call">>]
\* chat_response up to the external call: the empty-ledger return, the
\* greeting return, or the request sent
ChatEntry(query, ts) ==
    IF ts = <<>>
    THEN [pc |-> "done", query |-> query, path |-> <<"empty_test">>,
          ret |-> NoDataMessage]
    ELSE LET df == DataFrame(ts)
             q == Lower(query)
         IN  IF IsGreeting(q)
             THEN [pc |-> "done", query |-> q,
                   path |-> <<"empty_test", "greeting_test">>,
                   ret |-> Greeting(TotalSpent(df))]
             ELSE [pc |-> "calling", query |-> q,
                   path |-> <<"empty_test", "greeting_test", "external_call">>]

----------------------------------------------------------------------------
(* FinanceAssistant.get_spending_trends *)

\* days from 0001-01-01 to the date: datetime comparison and timedelta
RECURSIVE DaysBeforeMonth(_, _)
DaysBeforeMonth(y, m) ==
    IF m = 1 THEN 0 ELSE DaysInMonth(y, m - 1) + DaysBeforeMonth(y, m - 1)
Ordinal(d) ==
    LET y == d.year - 1
    IN  365 * y + (y \div 4) - (y \div 100) + (y \div 400)
        + DaysBeforeMonth(d.year, d.month) + d.day
\* df['date'].max()
RECURSIVE MaxOrdinal(_)
MaxOrdinal(df) ==
    IF Len(df) = 1 THEN Ordinal(df[1].date)
    ELSE LET rest == MaxOrdinal(Tail(df))
         IN  IF Ordinal(df[1].date) > rest THEN Ordinal(df[1].date) ELSE rest
\* the order of groupby(['date', 'category']) keys
TrendKeyLess(a, b) ==
    \/ DateLess(a[1], b[1])
    \/ a[1] = b[1] /\ StrLess(a[2], b[2])
RECURSIVE SortedTrendKeys(_)
SortedTrendKeys(S) ==
    IF S = {} THEN <<>>
    ELSE LET least == CHOOSE k \in S : \A o \in S \ {k} : TrendKeyLess(k, o)
         IN  <<least>> \o SortedTrendKeys(S \ {least})
\* groupby(['date', 'category'])['amount'].sum().reset_index()
GroupByDateCategory(df) ==
    LET keys == SortedTrendKeys({ <<df[i].date, df[i].category>> : i \in 1..Len(df) })
    IN  [n \in 1..Len(keys) |->
            [date |-> keys[n][1],
             category |-> keys[n][2],
             amount |-> SumColumn(SelectSeq(df, LAMBDA r :
                                    r.date = keys[n][1] /\ r.category = keys[n][2]))]]

\* (mutation of SpendingTrends: only the expenses are kept)
SpendingTrendsExpensesOnly(ts, days) ==
    IF Len(ts) = 0 THEN <<>>
    ELSE LET df == DataFrame(ts)
             start_date == MaxOrdinal(df) - days
         IN  GroupByDateCategory(
                 SelectSeq(df, LAMBDA r : Ordinal(r.date) >= start_date /\ r.amount < 0))
\* get_spending_trends: an empty frame for an empty ledger, else the rows from
\* start_date = last_date - timedelta(days) on, grouped
SpendingTrends(ts, days) ==
    IF Len(ts) = 0 THEN <<>>
    ELSE LET df == DataFrame(ts)
             last_date == MaxOrdinal(df)
             start_date == last_date - days
         IN  GroupByDateCategory(SelectSeq(df, LAMBDA r : Ordinal(r.date) >= start_date))

----------------------------------------------------------------------------
(* FinanceAI.get_insights *)

\* prepare_data: (None, None) for no transactions, else the data frame
PrepareData(ts) ==
    IF ts = <<>> THEN [frame |-> FALSE]
    ELSE [frame |-> TRUE, rows |-> DataFrame(ts)]

\* df['category'].unique(): in order of first appearance
RECURSIVE UniqueCategories(_, _)
UniqueCategories(rows, seen) ==
    IF rows = <<>> THEN seen
    ELSE UniqueCategories(Tail(rows),
            IF \E i \in 1..Len(seen) : seen[i] = Head(rows).category
            THEN seen ELSE Append(seen, Head(rows).category))

\* n * (amount - mean) for a category of n rows: the deviation, kept exact
DevScaled(rows, amount) == Len(rows) * amount - SumColumn(rows)
\* n * n * (sum of squared deviations from the mean), kept exact
RECURSIVE SumSqDevScaled(_, _)
SumSqDevScaled(rows, rest) ==
    IF rest = <<>> THEN 0
    ELSE DevScaled(rows, Head(rest).amount) * DevScaled(rows, Head(rest).amount)
         + SumSqDevScaled(rows, Tail(rest))
\* groupby('category')['amount'].std() is NaN for a single row (ddof = 1)
StdIsNaN(rows) == Len(rows) < 2

\* (mutation of IsUnusual: one standard deviation instead of two)
IsUnusualOneSigma(rows, amount) ==
    LET dev == DevScaled(rows, amount)
        beyond == IF StdIsNaN(rows) THEN dev # 0
                  ELSE (Len(rows) - 1) * dev * dev > SumSqDevScaled(rows, rows)
    IN  (dev < 0 /\ beyond) \/ (dev > 0 /\ beyond)
\* (amount < mean - 2*std) | (amount > mean + 2*std), std = 0 when NaN, with
\* std * std = (sum of squared deviations) / (n - 1)
IsUnusual(rows, amount) ==
    LET dev == DevScaled(rows, amount)
        beyond == IF StdIsNaN(rows) THEN dev # 0
                  ELSE (Len(rows) - 1) * dev * dev > 4 * SumSqDevScaled(rows, rows)
    IN  (dev < 0 /\ beyond) \/ (dev > 0 /\ beyond)

\* the loop over categories: one insight per category with an unusual row
RECURSIVE UnusualInsights(_, _)
UnusualInsights(df, categories) ==
    IF categories = <<>> THEN <<>>
    ELSE LET category == Head(categories)
             category_data == SelectSeq(df, LAMBDA r : r.category = category)
             unusual == SelectSeq(category_data,
                                  LAMBDA r : IsUnusual(category_data, r.amount))
         IN  (IF Len(unusual) > 0
              THEN << [kind |-> "unusual_spending", category |-> category] >>
              ELSE <<>>)
             \o UnusualInsights(df, Tail(categories))

\* the month-over-month change of the total, when there are two months
MonthlyChangeInsights(df) ==
    LET months == SortedKeys({ StrftimeYm(df[i].date) : i \in 1..Len(df) })
        Total(m) == SumColumn(SelectSeq(df, LAMBDA r : StrftimeYm(r.date) = m))
    IN  IF Len(months) >= 2
        THEN LET current_month == Total(months[Len(months)])
                 previous_month == Total(months[Len(months) - 1])
             IN  << [kind |-> "monthly_change",
                     change |-> IF previous_month = 0
                                THEN [num |-> current_month - previous_month, den |-> 0]
                                ELSE Frac((current_month - previous_month) * 100,
                                          previous_month)] >>
        ELSE <<>>

\* get_insights: with no transactions prepare_data returns a tuple, which is
\* not None, and df.groupby raises AttributeError
Insights(ts) ==
    LET df == PrepareData(ts)
    IN  IF ~df.frame
        THEN [kind |-> "raised", exception |-> "AttributeError"]
        ELSE [kind |-> "insights",
              items |-> UnusualInsights(df.rows, UniqueCategories(df.rows, <<>>))
                        \o MonthlyChangeInsights(df.rows)]

----------------------------------------------------------------------------
(* FinanceAssistant: operations *)

Init ==
    /\ data_file = <<>>
    /\ budget_file = <<>>
    /\ transactions = load_transactions(data_file)
    /\ budgets = load_budgets(budget_file)
    /\ last = [op |-> "__init__"]
    /\ chat = ChatIdle
    /\ peer = load_transactions(data_file)

\* FinanceAssistant(): a fresh instance loads both files
construct ==
    /\ transactions' = load_transactions(data_file)
    /\ budgets' = load_budgets(budget_file)
    /\ last' = [op |-> "__init__"]
    /\ UNCHANGED <<data_file, budget_file, chat, peer>>

\* (mutation of add_transaction: the new record placed first)
add_transaction_front(amount, category, description, date) ==
    /\ chat.pc = "idle"
    /\ Len(transactions) < MaxTx
    /\ LET transaction == [amount |-> amount, category |-> category,
                           description |-> description, date |-> date]
           inserted == <<transaction>> \o transactions
       IN  /\ transactions' = inserted
           /\ data_file' = save_transactions(inserted)
    /\ last' = [op |-> "add_transaction"]
    /\ UNCHANGED <<budgets, budget_file, chat, peer>>

add_transaction(amount, category, description, date) ==
    /\ chat.pc = "idle"
    /\ Len(transactions) < MaxTx
    /\ LET transaction == [amount |-> amount, category |-> category,
                           description |-> description, date |-> date]
           appended == Append(transactions, transaction)
       IN  /\ transactions' = appended
           /\ data_file' = save_transactions(appended)
    /\ last' = [op |-> "add_transaction"]
    /\ UNCHANGED <<budgets, budget_file, chat, peer>>

get_total_expenses ==
    /\ last' = [op |-> "get_total_expenses", ret |-> TotalExpenses(transactions)]
    /\ UNCHANGED <<transactions, budgets, data_file, budget_file, chat, peer>>

get_total_income ==
    /\ last' = [op |-> "get_total_income", ret |-> TotalIncome(transactions)]
    /\ UNCHANGED <<transactions, budgets, data_file, budget_file, chat, peer>>

set_budget(category, amount) ==
    /\ LET updated == DictSet(budgets, category, amount)
       IN  /\ budgets' = updated
           /\ budget_file' = save_budgets(updated)
    /\ last' = [op |-> "set_budget", category |-> category, amount |-> amount,
                outcome |-> "returned"]
    /\ UNCHANGED <<transactions, data_file, chat, peer>>

get_monthly_expenses_by_category(category, now) ==
    /\ LET current_month == StrftimeYm(now)
       IN  last' = [op |-> "get_monthly_expenses_by_category",
                    category |-> category, month |-> current_month,
                    ret |-> MonthlyExpensesByCategory(transactions, category,
                                                      current_month)]
    /\ UNCHANGED <<transactions, budgets, data_file, budget_file, chat, peer>>

get_budget_status(now) ==
    /\ LET current_month == StrftimeYm(now)
       IN  last' = [op |-> "get_budget_status", month |-> current_month,
                    ret |-> BudgetStatus(transactions, budgets, current_month)]
    /\ UNCHANGED <<transactions, budgets, data_file, budget_file, chat, peer>>

get_spending_trends(days) ==
    /\ last' = [op |-> "get_spending_trends", days |-> days,
                ret |-> SpendingTrends(transactions, days)]
    /\ UNCHANGED <<transactions, budgets, data_file, budget_file, chat, peer>>

----------------------------------------------------------------------------
(* FinanceAI.chat_response(query, finance.transactions), in the steps around *)
(* the blocking openai.ChatCompletion.create call                            *)

chat_response(query) ==
    /\ chat.pc = "idle"
    /\ chat' = ChatEntry(query, transactions)
    /\ UNCHANGED <<transactions, budgets, data_file, budget_file, last, peer>>

\* the call returns: response.choices[0].message['content'] is returned verbatim
openai_returns(text) ==
    /\ chat.pc = "calling"
    /\ chat' = [chat EXCEPT !.pc = "done",
                            !.path = Append(@, "external_returned")]
                 @@ [ret |-> [kind |-> "external", text |-> text]]
    /\ UNCHANGED <<transactions, budgets, data_file, budget_file, last, peer>>

\* the call raises (or the response is malformed): the except branch runs
openai_raises(now) ==
    /\ chat.pc = "calling"
    /\ chat' = [chat EXCEPT !.pc = "done",
                            !.path = Append(@, "external_failed")]
                 @@ [rule |-> FallbackRule(chat.query),
                     ret |-> Fallback(chat.query, DataFrame(transactions), now)]
    /\ UNCHANGED <<transactions, budgets, data_file, budget_file, last, peer>>

\* show_chat_assistant takes the response: the call is over
chat_return ==
    /\ chat.pc = "done"
    /\ chat' = ChatIdle
    /\ UNCHANGED <<transactions, budgets, data_file, budget_file, last, peer>>

\* ai_helper.get_insights(finance.transactions)
get_insights ==
    /\ chat.pc = "idle"
    /\ last' = [op |-> "get_insights", ret |-> Insights(transactions)]
    /\ UNCHANGED <<transactions, budgets, data_file, budget_file, chat, peer>>

Next ==
    \/ construct
    \/ \E c \in BudgetCategories, a \in BudgetAmounts : set_budget(c, a)
    \/ \E c \in QueryCategories, now \in Nows :
          get_monthly_expenses_by_category(c, now)
    \/ \E now \in Nows : get_budget_status(now)
    \/ \E tx \in TxInputs :
          add_transaction(tx.amount, tx.category, tx.description, tx.date)
    \/ get_total_expenses
    \/ get_total_income
    \/ \E days \in TrendDays : get_spending_trends(days)

Spec == Init /\ [][Next]_vars

\* The chat page: transactions are added and questions asked
Queries ==
    { "hello", "Hey, summary", "this month", "anything",
      "spent most", "spent most on food", "Summary of bills",
      "Food on 2024-03-02", "transport", "other",
      "2024-03-02", "today in march", "yesterday", "from 2024-04-01 to date",
      "last month", "March", "what can you do" }
Replies == { "reply" }

NextChat ==
    \/ \E tx \in TxInputs :
          add_transaction(tx.amount, tx.category, tx.description, tx.date)
    \/ \E query \in Queries : chat_response(query)
    \/ \E text \in Replies : openai_returns(text)
    \/ \E now \in Nows : openai_raises(now)
    \/ chat_return

SpecChat == Init /\ [][NextChat]_vars

\* One session over all pages: every operation of the ledger store and of
\* FinanceAI, one call at a time, on small inputs
SessionTxInputs == { tx \in TxInputs : tx.amount \in {-50, -30, 20} }
SessionQueries == { "hello", "spent most", "what can you do" }
SessionBudgetAmounts == {0, 100}

NextSession ==
    \/ chat.pc = "idle" /\ construct
    \/ \E tx \in SessionTxInputs :
          add_transaction(tx.amount, tx.category, tx.description, tx.date)
    \/ chat.pc = "idle" /\ \E a \in SessionBudgetAmounts : set_budget("Food", a)
    \/ chat.pc = "idle" /\ get_total_expenses
    \/ chat.pc = "idle" /\ get_total_income
    \/ chat.pc = "idle" /\ \E now \in Nows : get_monthly_expenses_by_category("Food", now)
    \/ chat.pc = "idle" /\ \E now \in Nows : get_budget_status(now)
    \/ chat.pc = "idle" /\ get_spending_trends(30)
    \/ get_insights
    \/ \E query \in SessionQueries : chat_response(query)
    \/ \E text \in Replies : openai_returns(text)
    \/ \E now \in Nows : openai_raises(now)
    \/ chat_return

SpecSession == Init /\ [][NextSession]_vars

\* The insights page: get_insights applied to ledgers of up to MaxInsightTx
\* transactions
MaxInsightTx == 6
InsightTxInputs ==
    { [amount |-> 10,   category |-> "Food",  description |-> "Snack",  date |-> "2024-03-02"],
      [amount |-> 1000, category |-> "Food",  description |-> "Feast",  date |-> "2024-03-10"],
      [amount |-> -200, category |-> "Bills", description |-> "Rent",   date |-> "2024-04-01"],
      [amount |-> -50,  category |-> "Bills", description |-> "Water",  date |-> "2024-03-05"] }

InitInsights ==
    /\ transactions \in UNION { [1..n -> InsightTxInputs] : n \in 0..MaxInsightTx }
    /\ data_file = (IF transactions = <<>> THEN <<>> ELSE save_transactions(transactions))
    /\ budget_file = <<>>
    /\ budgets = load_budgets(budget_file)
    /\ last = [op |-> "__init__"]
    /\ chat = ChatIdle
    /\ peer = transactions

NextInsights == get_insights

SpecInsights == InitInsights /\ [][NextInsights]_vars

----------------------------------------------------------------------------
(* Two FinanceAssistant instances (two sessions of app.py) on one file *)

WriterTxInputs == { tx \in TxInputs : tx.amount \in {-50, -30, 20} }

\* (mutation of peer_add_transaction: the file is read again before the append)
peer_add_transaction_reload(amount, category, description, date) ==
    /\ Len(peer) < MaxTx
    /\ Len(load_transactions(data_file)) < MaxTx
    /\ LET transaction == [amount |-> amount, category |-> category,
                           description |-> description, date |-> date]
           appended == Append(load_transactions(data_file), transaction)
       IN  /\ peer' = appended
           /\ data_file' = save_transactions(appended)
    /\ last' = [op |-> "add_transaction"]
    /\ UNCHANGED <<transactions, budgets, budget_file, chat>>
\* add_transaction on the second instance: its own list appended and dumped
peer_add_transaction(amount, category, description, date) ==
    /\ Len(peer) < MaxTx
    /\ LET transaction == [amount |-> amount, category |-> category,
                           description |-> description, date |-> date]
           appended == Append(peer, transaction)
       IN  /\ peer' = appended
           /\ data_file' = save_transactions(appended)
    /\ last' = [op |-> "add_transaction"]
    /\ UNCHANGED <<transactions, budgets, budget_file, chat>>

\* both instances constructed on the same file, holding at most one record
InitWriters ==
    /\ \E base \in UNION { [1..n -> WriterTxInputs] : n \in 0..1 } :
          data_file = (IF base = <<>> THEN <<>> ELSE save_transactions(base))
    /\ budget_file = <<>>
    /\ transactions = load_transactions(data_file)
    /\ peer = load_transactions(data_file)
    /\ budgets = load_budgets(budget_file)
    /\ last = [op |-> "__init__"]
    /\ chat = ChatIdle

NextWriters ==
    \/ \E tx \in WriterTxInputs :
          add_transaction(tx.amount, tx.category, tx.description, tx.date)
    \/ \E tx \in WriterTxInputs :
          peer_add_transaction(tx.amount, tx.category, tx.description, tx.date)

SpecWriters == InitWriters /\ [][NextWriters]_vars

----------------------------------------------------------------------------
(* add_transaction when float(amount) or the write of the file raises *)

\* amounts float() rejects
BadAmounts == {"abc", ""}

\* what a failed save_transactions leaves on disk: the old file when open()
\* failed, else a cut document holding the first k records
CutDocument(ts, k) == [t |-> "cut", v |-> SubSeq(DumpTransactions(ts).v, 1, k)]
FailedWrites(ts, file) ==
    {file} \cup { <<CutDocument(ts, k)>> : k \in 0..(Len(ts) - 1) }

\* float(amount) raises ValueError while the dict is built
add_transaction_ValueError(amount, category, description, date) ==
    /\ amount \in BadAmounts
    /\ last' = [op |-> "add_transaction", raised |-> "ValueError"]
    /\ UNCHANGED <<transactions, budgets, data_file, budget_file, chat, peer>>

\* save_transactions raises OSError after self.transactions.append
add_transaction_OSError(amount, category, description, date) ==
    /\ chat.pc = "idle"
    /\ Len(transactions) < MaxTx
    /\ LET transaction == [amount |-> amount, category |-> category,
                           description |-> description, date |-> date]
           appended == Append(transactions, transaction)
       IN  /\ transactions' = appended
           /\ data_file' \in FailedWrites(appended, data_file)
    /\ last' = [op |-> "add_transaction", raised |-> "OSError"]
    /\ UNCHANGED <<budgets, budget_file, chat, peer>>

NextFailing ==
    \/ \E tx \in TxInputs :
          add_transaction(tx.amount, tx.category, tx.description, tx.date)
    \/ \E amount \in BadAmounts, tx \in TxInputs :
          add_transaction_ValueError(amount, tx.category, tx.description, tx.date)
    \/ \E tx \in TxInputs :
          add_transaction_OSError(tx.amount, tx.category, tx.description, tx.date)

SpecFailing == Init /\ [][NextFailing]_vars

----------------------------------------------------------------------------
(* Reference definitions used by the properties: sums over index sets *)

RECURSIVE SumAmounts(_, _)
SumAmounts(ts, I) ==
    IF I = {} THEN 0
    ELSE LET i == CHOOSE n \in I : TRUE
         IN  ts[i].amount + SumAmounts(ts, I \ {i})
Indices(ts) == 1..Len(ts)
ExampleLedger ==
    << [amount |-> -50, category |-> "Food", description |-> "Grocery",    date |-> "2024-03-02"],
       [amount |-> -30, category |-> "Food", description |-> "Restaurant", date |-> "2024-04-01"],
       [amount |-> 20,  category |-> "Food", description |-> "Refund",     date |-> "2024-03-10"] >>
\* the expenses of a category in a month, by the month prefix of the date
MonthExpenseIndices(ts, category, month) ==
    { i \in Indices(ts) : /\ ts[i].category = category
                          /\ ts[i].amount < 0
                          /\ SubSeq(ts[i].date, 1, 7) = month }
Months == { StrftimeYm(now) : now \in Nows }

----------------------------------------------------------------------------
(* Properties of the ledger store *)

\* C1: accounting identity. In every state reached by add_transaction calls,
\* get_total_income() + get_total_expenses() is the sum of all amounts;
\* income is the sum of the amounts > 0, expenses the sum of the amounts < 0,
\* and expenses are never positive.
C1_AccountingIdentity ==
    LET income == TotalIncome(transactions)
        expenses == TotalExpenses(transactions)
    IN  /\ income + expenses = SumAmounts(transactions, Indices(transactions))
        /\ income = SumAmounts(transactions,
                               { i \in Indices(transactions) : transactions[i].amount > 0 })
        /\ expenses = SumAmounts(transactions,
                                 { i \in Indices(transactions) : transactions[i].amount < 0 })
        /\ expenses <= 0
        /\ last.op = "get_total_income" => last.ret = income
        /\ last.op = "get_total_expenses" => last.ret = expenses
C1_Witness ==
    /\ last.op = "get_total_expenses"
    /\ last.ret < 0
    /\ \E i, j, k \in Indices(transactions) :
          /\ transactions[i].amount > 0
          /\ transactions[j].amount < 0
          /\ transactions[k].amount = 0

\* C2: persistence round trip. What a fresh instance would load from the two
\* files is exactly the in-memory transaction sequence and budget mapping of
\* the instance that made the calls; a missing file loads as empty.
C2_RoundTrip ==
    /\ load_transactions(data_file) = transactions
    /\ load_budgets(budget_file) = budgets
    /\ data_file = <<>> => transactions = <<>>
    /\ budget_file = <<>> => budgets = <<>>
C2_Witness ==
    /\ last.op = "__init__"
    /\ Len(transactions) >= 2
    /\ transactions[1] # transactions[2]
    /\ Len(budgets) >= 2

\* C3: set_budget rejects a negative amount with a ValidationError and leaves
\* the budget map unchanged, so no budget value, in memory or on disk, is
\* ever negative.
C3_NegativeBudgetRejected ==
    /\ \A i \in 1..Len(budgets) : budgets[i][2] >= 0
    /\ \A i \in 1..Len(load_budgets(budget_file)) : load_budgets(budget_file)[i][2] >= 0
    /\ (last.op = "set_budget" /\ last.amount < 0) => last.outcome = "ValidationError"

\* C8: get_budget_status() has an entry for exactly the categories of the
\* budget map, whatever the ledger holds, computed from the current state.
C8_StatusKeysAreBudgetKeys ==
    /\ \A m \in Months :
          DictKeys(BudgetStatus(transactions, budgets, m)) = DictKeys(budgets)
    /\ last.op = "get_budget_status" =>
          /\ DictKeys(last.ret) = DictKeys(budgets)
          /\ Len(last.ret) = Len(budgets)
          /\ last.ret = BudgetStatus(transactions, budgets, last.month)
C8_Witness ==
    /\ last.op = "get_budget_status"
    /\ DictKeys(last.ret) = {"Bills"}
    /\ \E i \in Indices(transactions) : transactions[i].category = "Food"
    /\ \A i \in Indices(transactions) : transactions[i].category # "Bills"

\* C9: every entry of get_budget_status() has budget = the stored budget,
\* spent = the absolute sum of the category's expenses of the current month
\* (>= 0), remaining = budget - spent, and percentage = spent / budget * 100
\* when budget > 0 and exactly 0 when budget is 0.
C9_StatusEntries ==
    last.op = "get_budget_status" =>
        \A i \in 1..Len(last.ret) :
            LET category == last.ret[i][1]
                e == last.ret[i][2]
                spent == -SumAmounts(transactions,
                             MonthExpenseIndices(transactions, category, last.month))
            IN  /\ e.budget = DictGet(budgets, category)
                /\ e.spent = spent
                /\ e.spent >= 0
                /\ e.remaining = e.budget - e.spent
                /\ e.budget > 0 =>
                      /\ e.percentage.den > 0
                      /\ e.percentage.num * e.budget = e.percentage.den * e.spent * 100
                /\ e.budget = 0 => e.percentage = Zero
C9_Witness ==
    /\ last.op = "get_budget_status"
    /\ \E i, j \in 1..Len(last.ret) :
          /\ last.ret[i][2].budget = 0
          /\ last.ret[i][2].spent > 0
          /\ last.ret[j][2].budget > 0
          /\ last.ret[j][2].remaining < 0
          /\ last.ret[j][2].percentage = [num |-> 200, den |-> 1]

\* C10: the monthly expenses of a category are the sum of the absolute values
\* of exactly the transactions of that category with amount < 0 whose date
\* starts with the YYYY-MM month; on the ledger
\* [{-50, Food, 2024-03-02}, {-30, Food, 2024-04-01}, {20, Food, 2024-03-10}]
\* with category Food and month 2024-03 the result is 50.
C10_MonthlyExpenses ==
    /\ \A c \in QueryCategories, m \in Months :
          MonthlyExpensesByCategory(transactions, c, m)
            = -SumAmounts(transactions, MonthExpenseIndices(transactions, c, m))
    /\ last.op = "get_monthly_expenses_by_category" =>
          /\ last.ret = -SumAmounts(transactions,
                            MonthExpenseIndices(transactions, last.category, last.month))
          /\ (transactions = ExampleLedger /\ last.category = "Food"
                 /\ last.month = "2024-03") => last.ret = 50
C10_Witness ==
    /\ last.op = "get_monthly_expenses_by_category"
    /\ transactions = ExampleLedger
    /\ last.category = "Food"
    /\ last.month = "2024-03"
    /\ last.ret = 50

----------------------------------------------------------------------------
(* Properties of the query responder *)

InPath(step) == chat.pc # "idle" /\ \E i \in 1..Len(chat.path) : chat.path[i] = step
ExpenseIndices(ts) == { i \in Indices(ts) : ts[i].amount < 0 }
MessageKinds ==
    { "no_transaction_data", "greeting", "external", "highest_spending", "summary",
      "category_analysis", "date_spending", "monthly_analysis", "no_transactions",
      "help" }

\* C4: when the external call fails on a non-empty ledger, chat_response
\* returns a message for every query and never lets an exception reach the
\* caller, also when the matched branch finds nothing ('spent most' on a
\* ledger without expenses).
C4_FallbackNeverRaises ==
    (chat.pc = "done" /\ InPath("external_failed")) =>
        /\ chat.ret.kind # "raised"
        /\ chat.ret.kind \in MessageKinds

\* the rules of the fallback in their order, stated on the query alone
RuleOrder == <<"a", "b", "c", "d", "e", "f">>
RuleMatches(r, q) ==
    CASE r = "a" -> Contains(q, "spent most")
      [] r = "b" -> Contains(q, "summary")
      [] r = "c" -> \E w \in {"food", "transport", "entertainment", "bills", "other"} :
                       Contains(q, w)
      [] r = "d" -> \/ \E i \in 1..Len(q) : DateAt(q, i)
                    \/ Contains(q, "today")
                    \/ Contains(q, "yesterday")
      [] r = "e" -> \E w \in {"month", "january", "february", "march", "april", "may",
                               "june", "july", "august", "september", "october",
                               "november", "december"} : Contains(q, w)
      [] r = "f" -> TRUE
FirstMatchingRule(q) ==
    RuleOrder[CHOOSE i \in 1..Len(RuleOrder) :
                 /\ RuleMatches(RuleOrder[i], q)
                 /\ \A n \in 1..(i - 1) : ~RuleMatches(RuleOrder[n], q)]
HandlerKinds(r) ==
    CASE r = "a" -> {"highest_spending", "raised"}
      [] r = "b" -> {"summary"}
      [] r = "c" -> {"category_analysis", "no_transactions"}
      [] r = "d" -> {"date_spending", "no_transactions"}
      [] r = "e" -> {"monthly_analysis", "no_transactions"}
      [] r = "f" -> {"help"}

\* C5: when the external call fails, the answer is that of the first matching
\* rule in the order (a) 'spent most', (b) 'summary', (c) a category name,
\* (d) a date or 'today'/'yesterday', (e) 'month' or a month name, (f) help;
\* a query with a category name and a date gets the category analysis.
C5_FirstMatchingRule ==
    (chat.pc = "done" /\ InPath("external_failed")) =>
        /\ chat.rule = FirstMatchingRule(chat.query)
        /\ chat.ret.kind \in HandlerKinds(chat.rule)
        /\ (RuleMatches("c", chat.query) /\ RuleMatches("d", chat.query)
              /\ chat.rule \notin {"a", "b"}) =>
                 /\ chat.rule = "c"
                 /\ chat.ret.kind # "date_spending"
C5_Witness ==
    /\ chat.pc = "done"
    /\ InPath("external_failed")
    /\ chat.query = "food on 2024-03-02"
    /\ chat.rule = "c"
    /\ chat.ret.kind = "category_analysis"

\* C6: with an empty transaction list every query, greetings included, gets
\* the 'no transaction data' message: no greeting test, no external call, no
\* fallback rule.
C6_EmptyLedgerShortCircuit ==
    (chat.pc # "idle" /\ transactions = <<>>) =>
        /\ chat.pc = "done"
        /\ chat.ret = NoDataMessage
        /\ chat.path = <<"empty_test">>
        /\ "rule" \notin DOMAIN chat
C6_Witness ==
    /\ transactions = <<>>
    /\ chat.pc = "done"
    /\ chat.query = "hello"
    /\ chat.ret = NoDataMessage

HasGreetingSubstring(q) ==
    \E w \in {"hi", "hello", "hey"} :
        \E i \in 1..Len(q) : i + Len(w) - 1 <= Len(q) /\ SubSeq(q, i, i + Len(w) - 1) = w

\* C7: on a non-empty ledger a query whose lower-cased text contains 'hi',
\* 'hello' or 'hey' as a substring gets the greeting with the total of all
\* expenses and no external call is made for it; the external call is made
\* exactly for the queries with none of these substrings.
C7_GreetingPrecedence ==
    (chat.pc # "idle" /\ transactions # <<>>) =>
        /\ HasGreetingSubstring(chat.query) =>
              /\ chat.pc = "done"
              /\ chat.ret.kind = "greeting"
              /\ chat.ret.total_spent
                    = -SumAmounts(transactions, ExpenseIndices(transactions))
              /\ ~InPath("external_call")
        /\ ~HasGreetingSubstring(chat.query) => InPath("external_call")
        /\ chat.query \in { Lower(q) : q \in Queries }
C7_Witness ==
    /\ chat.pc = "done"
    /\ chat.query = "this month"
    /\ chat.ret.kind = "greeting"
    /\ chat.ret.total_spent > 0
    /\ ~InPath("external_call")

----------------------------------------------------------------------------
(* Properties of get_insights *)

CategoryIndices(ts, c) == { i \in Indices(ts) : ts[i].category = c }
CategoriesOf(ts) == { ts[i].category : i \in Indices(ts) }
Flagged(ret, c) ==
    /\ ret.kind = "insights"
    /\ \E i \in 1..Len(ret.items) :
          ret.items[i] = [kind |-> "unusual_spending", category |-> c]
\* the amounts of category c, as a bag
AmountsBag(ts, c) ==
    [a \in { ts[i].amount : i \in CategoryIndices(ts, c) } |->
        Cardinality({ i \in CategoryIndices(ts, c) : ts[i].amount = a })]
\* amount i lies more than 2 sample standard deviations from the mean of I:
\* (x - S/n)^2 > 4 * sum (x_j - S/n)^2 / (n - 1), multiplied out
RECURSIVE SumSquares(_, _, _)
SumSquares(ts, I, J) ==
    IF J = {} THEN 0
    ELSE LET j == CHOOSE n \in J : TRUE
             d == Cardinality(I) * ts[j].amount - SumAmounts(ts, I)
         IN  d * d + SumSquares(ts, I, J \ {j})
BeyondTwoSigma(ts, I, i) ==
    LET n == Cardinality(I)
        d == n * ts[i].amount - SumAmounts(ts, I)
    IN  n >= 2 /\ (n - 1) * d * d > 4 * SumSquares(ts, I, I)
HasOutlier(ts, c) ==
    \E i \in CategoryIndices(ts, c) : BeyondTwoSigma(ts, CategoryIndices(ts, c), i)
OutlierExample == (10 :> 4) @@ (1000 :> 1)

\* C11 as stated: a category is flagged exactly when it holds an amount more
\* than 2 standard deviations from its mean, a category with amounts
\* [10, 10, 10, 10, 1000] is flagged, and a category with one data point or
\* all amounts equal is not flagged and does not make the call raise.
C11_OutlierExampleFlagged ==
    (last.op = "get_insights" /\ transactions # <<>>) =>
        /\ last.ret.kind = "insights"
        /\ \A c \in CategoriesOf(transactions) :
              /\ Flagged(last.ret, c) <=> HasOutlier(transactions, c)
              /\ AmountsBag(transactions, c) = OutlierExample => Flagged(last.ret, c)
              /\ Cardinality(DOMAIN AmountsBag(transactions, c)) = 1
                    => ~Flagged(last.ret, c)

\* C11, amended: a category is flagged exactly when it holds an amount more
\* than 2 sample standard deviations (n - 1 in the divisor) from its mean; a
\* category with amounts [10, 10, 10, 10, 1000] is not flagged (1000 is 792
\* from the mean 208, and twice the deviation is 885.5); a category with one
\* data point or all amounts equal is not flagged and the call does not raise.
C11_TwoSigmaRule ==
    (last.op = "get_insights" /\ transactions # <<>>) =>
        /\ last.ret.kind = "insights"
        /\ \A c \in CategoriesOf(transactions) :
              /\ Flagged(last.ret, c) <=> HasOutlier(transactions, c)
              /\ AmountsBag(transactions, c) = OutlierExample => ~Flagged(last.ret, c)
              /\ Cardinality(DOMAIN AmountsBag(transactions, c)) = 1
                    => ~Flagged(last.ret, c)
C11_Witness ==
    /\ last.op = "get_insights"
    /\ AmountsBag(transactions, "Food") = OutlierExample
    /\ Cardinality(CategoryIndices(transactions, "Bills")) = 1
    /\ last.ret.kind = "insights"
    /\ ~Flagged(last.ret, "Food")
    /\ ~Flagged(last.ret, "Bills")

----------------------------------------------------------------------------
(* Properties of the ledger over a whole session *)

IsPrefix(s, t) == Len(s) <= Len(t) /\ SubSeq(t, 1, Len(s)) = s

\* C12: the ledger is append-only and in arrival order. In every step of
\* every operation the transaction sequence before is a prefix of the
\* sequence after; only add_transaction changes it, by exactly one record
\* placed last whatever its date; nothing is modified, moved or removed.
C12_AppendOnly ==
    [][ /\ IsPrefix(transactions, transactions')
        /\ transactions' # transactions =>
              /\ last'.op = "add_transaction"
              /\ Len(transactions') = Len(transactions) + 1
              /\ transactions'[Len(transactions')] \in SessionTxInputs
        /\ data_file' # data_file =>
              /\ Len(transactions') = Len(transactions) + 1
              /\ load_transactions(data_file') = transactions'
      ]_vars
C12_Witness ==
    /\ last.op = "add_transaction"
    /\ Len(transactions) = 3
    /\ DateLess(ToDatetime(transactions[2].date), ToDatetime(transactions[1].date))
    /\ DateLess(ToDatetime(transactions[2].date), ToDatetime(transactions[3].date))

----------------------------------------------------------------------------
(* Properties of get_spending_trends *)

\* date d is reached from date latest in at most k steps of one day back
RECURSIVE WithinDaysBefore(_, _, _)
WithinDaysBefore(d, latest, k) ==
    \/ d = latest
    \/ k > 0 /\ DateLess(d, latest) /\ WithinDaysBefore(d, MinusOneDay(latest), k - 1)
LatestDate(ts) ==
    CHOOSE d \in { ToDatetime(ts[i].date) : i \in Indices(ts) } :
        \A i \in Indices(ts) : ~DateLess(d, ToDatetime(ts[i].date))
WindowIndices(ts, days) ==
    { i \in Indices(ts) : WithinDaysBefore(ToDatetime(ts[i].date), LatestDate(ts), days) }

\* C13: get_spending_trends(days) takes exactly the transactions dated no
\* earlier than (latest transaction date - days), whatever the clock shows, and
\* returns one row per (date, category) pair among them, whose amount is the
\* sum of all their amounts, income and expenses together; an empty ledger
\* gives an empty result.
C13_SpendingTrends ==
    last.op = "get_spending_trends" =>
        /\ transactions = <<>> => last.ret = <<>>
        /\ transactions # <<>> =>
              LET W == WindowIndices(transactions, last.days)
                  Pair(i) == <<ToDatetime(transactions[i].date), transactions[i].category>>
              IN  /\ { <<last.ret[n].date, last.ret[n].category>> : n \in 1..Len(last.ret) }
                        = { Pair(i) : i \in W }
                  /\ Len(last.ret) = Cardinality({ Pair(i) : i \in W })
                  /\ \A n \in 1..Len(last.ret) :
                        last.ret[n].amount
                          = SumAmounts(transactions,
                                { i \in W : Pair(i) = <<last.ret[n].date,
                                                         last.ret[n].category>> })
C13_Witness ==
    /\ last.op = "get_spending_trends"
    /\ last.days = 7
    /\ Len(transactions) = 3
    /\ Len(last.ret) = 1
    /\ last.ret[1] = [date |-> [year |-> 2024, month |-> 3, day |-> 10],
                      category |-> "Food", amount |-> 20]
    /\ \E i \in Indices(transactions) : transactions[i].date = "2024-03-02"
    /\ \A i \in Indices(transactions) : transactions[i].date # "2024-04-01"

----------------------------------------------------------------------------
(* Two writers *)

Records(ts) == { ts[i] : i \in Indices(ts) }

\* C14: each writer rewrites the whole file from its own list: after an
\* add_transaction the file holds the writer's previous list plus the new
\* record, whatever the file held before; so of two instances that loaded the
\* same file and each completed an add_transaction, the file misses the
\* record of the one that wrote first (C14_Witness).
C14_WholeFileRewrite ==
    [][ /\ transactions' # transactions =>
              /\ Len(transactions') = Len(transactions) + 1
              /\ SubSeq(transactions', 1, Len(transactions)) = transactions
              /\ load_transactions(data_file') = transactions'
              /\ peer' = peer
        /\ peer' # peer =>
              /\ Len(peer') = Len(peer) + 1
              /\ SubSeq(peer', 1, Len(peer)) = peer
              /\ load_transactions(data_file') = peer'
              /\ transactions' = transactions
      ]_vars
C14_Witness ==
    /\ last.op = "add_transaction"
    /\ Len(transactions) = 2
    /\ Len(peer) = 2
    /\ transactions[1] = peer[1]
    /\ load_transactions(data_file) = peer
    /\ transactions[2] \notin Records(load_transactions(data_file))

----------------------------------------------------------------------------
(* Failed add_transaction *)

\* C15: when add_transaction raises (float(amount) fails, or the write of the
\* file fails), the list in memory and the transactions file are what they
\* were before the call.
C15_FailedAddChangesNothing ==
    [][ (last'.op = "add_transaction" /\ "raised" \in DOMAIN last') =>
            /\ transactions' = transactions
            /\ data_file' = data_file
      ]_vars

====
